---- MODULE Spec2Model ----
(***************************************************************************)
(* Model of the launchdarkly-rust-sdk stream consumer and memory store.    *)
(*                                                                         *)
(*   src/src/store.rs     MemoryStore: flags (ArcSwap<HashMap>), init      *)
(*                        (AtomicBool), flag / export_all / consume        *)
(*   src/src/consumer.rs  Consumer::read_from: background retry loop,      *)
(*                        watch channel, readiness future                  *)
(*   src/src/message.rs   Message, Update                                  *)
(*                                                                         *)
(* The background task, the readiness future and a reader run              *)
(* concurrently; each access to shared state (ArcSwap load/store,          *)
(* AtomicBool load/store, watch send/borrow/changed) is one step.          *)
(***************************************************************************)
EXTENDS Integers, Sequences, FiniteSets, TLC

\* ------------------------------------------------------------------ bounds
\* highest flag version that the source delivers
MaxVersion == 2
\* number of stream item errors the source delivers in one run
MaxErrors == 5
\* number of calls of DefaultClient::start
MaxStarts == 3
\* number of maps a writer stores while an Evaluator reads the store
MaxWrites == 2

\* ------------------------------------------------------- program constants
\* `while failures < 4`
RetryLimit == 4

\* --------------------------------------------------------------- data model
Keys == {"a", "b"}
Versions == 1..MaxVersion

\* FeatureFlagState, reduced to the fields the store and the claims read
FeatureFlagState == [version : Versions, on : BOOLEAN]

\* HashMap<String, FeatureFlagState>: a function on a subset of Keys
FlagMaps == UNION {[S -> FeatureFlagState] : S \in SUBSET Keys}

\* HashMap::new()
EmptyMap == [k \in {} |-> [version |-> 1, on |-> FALSE]]

\* Option<T> is a sequence of length 0 (None) or 1 (Some)
None == << >>
Some(x) == <<x>>
IsSome(o) == Len(o) = 1
Unwrap(o) == o[1]
OptFlag == {None} \cup {Some(f) : f \in FeatureFlagState}
OptVersion == {None} \cup {Some(v) : v \in Versions}

\* HashMap::get
Get(m, name) == IF name \in DOMAIN m THEN Some(m[name]) ELSE None

\* HashMap::insert
Insert(m, name, flag) ==
    [k \in DOMAIN m \cup {name} |-> IF k = name THEN flag ELSE m[k]]

\* HashMap::remove
Remove(m, name) == [k \in DOMAIN m \ {name} |-> m[k]]

\* ------------------------------------------------------------------ Message
MkMsg(t, fl, kind, name, data, version) ==
    [type |-> t, flags |-> fl, kind |-> kind, name |-> name,
     data |-> data, version |-> version]

\* Message::Put(InitData { flags })
PutMsgs == {MkMsg("Put", m, "-", "-", None, None) : m \in FlagMaps}

\* Update::Flag { name, data, version } | Update::Unknown
PatchMsgs ==
    {MkMsg("Patch", EmptyMap, "Flag", n, d, v) :
        n \in Keys, d \in OptFlag, v \in {None, Some(1)}}
    \cup {MkMsg("Patch", EmptyMap, "Unknown", "-", None, None)}

DeleteMsgs ==
    {MkMsg("Delete", EmptyMap, "Flag", n, d, v) :
        n \in Keys, d \in {None, Some([version |-> 1, on |-> TRUE])},
        v \in OptVersion}
    \cup {MkMsg("Delete", EmptyMap, "Unknown", "-", None, None)}

\* Message::Unknown
UnknownMsg == MkMsg("Unknown", EmptyMap, "-", "-", None, None)

Messages == PutMsgs \cup PatchMsgs \cup DeleteMsgs \cup {UnknownMsg}

\* no message is being consumed
NoMsg == MkMsg("-", EmptyMap, "-", "-", None, None)

\* which arm of the `match msg` in MemoryStore::consume takes the message
Arm(m) ==
    CASE m.type = "Put" -> "Put"
      [] m.type = "Patch" /\ m.kind = "Flag" /\ IsSome(m.data) -> "Patch"
      [] m.type = "Delete" /\ m.kind = "Flag" /\ IsSome(m.version) -> "Delete"
      [] OTHER -> "Fallback"

\* Patch arm: `if let Some(existing) = flags.get(&name)
\*               { if flag.version > existing.version { return Done } }`
PatchIgnored(loaded, name, flag) ==
    /\ IsSome(Get(loaded, name))
    /\ flag.version > Unwrap(Get(loaded, name)).version

\* Patch arm: the clone of the loaded map with the flag inserted
PatchUpdated(loaded, name, flag) == Insert(loaded, name, flag)

\* variant of DeleteNewer: the comparison also admits an equal version
DeleteNewerOrEqual(version, f) == version >= f.version

\* Delete arm: `.filter(|f| version > f.version)`
DeleteNewer(version, f) == version > f.version

\* Delete arm: Option of the clone of the loaded map without the key
DeleteUpdated(loaded, name, version) ==
    IF IsSome(Get(loaded, name)) /\ DeleteNewer(version, Unwrap(Get(loaded, name)))
    THEN Some(Remove(loaded, name))
    ELSE None

\* variant of Swap: the new entries are written into the visible map
SwapMerge(old, new) ==
    [k \in DOMAIN old \cup DOMAIN new |->
        IF k \in DOMAIN new THEN new[k] ELSE old[k]]

\* ArcSwap::store: the visible map becomes the new one, whole
Swap(old, new) == new

\* consume as one sequential step: the map it leaves
ConsumeFlags(m, ini, e) ==
    CASE Arm(e) = "Put" -> e.flags
      [] Arm(e) = "Patch" ->
            IF ini /\ ~PatchIgnored(m, e.name, Unwrap(e.data))
            THEN PatchUpdated(m, e.name, Unwrap(e.data))
            ELSE m
      [] Arm(e) = "Delete" ->
            IF ini /\ IsSome(DeleteUpdated(m, e.name, Unwrap(e.version)))
            THEN Unwrap(DeleteUpdated(m, e.name, Unwrap(e.version)))
            ELSE m
      [] OTHER -> m

\* consume as one sequential step: what it returns
ConsumeReturn(ini, e) ==
    IF Arm(e) \in {"Patch", "Delete"} /\ ~ini THEN "Pending" ELSE "Done"

\* consume as one sequential step: the init flag it leaves
ConsumeInit(ini, e) == ini \/ Arm(e) = "Put"

\* no key is known as deleted
NoTombs == [k \in Keys |-> 0]

\* the deleted keys after consume(e) took the map from m to n: a Delete that
\* removed its key records its version, a Put forgets every deletion, a
\* Patch with a version above the recorded one forgets the key's
TombsAfter(t, m, n, ini, e) ==
    CASE Arm(e) = "Put" -> NoTombs
      [] Arm(e) = "Delete" /\ e.name \in DOMAIN m /\ e.name \notin DOMAIN n ->
            [t EXCEPT ![e.name] = Unwrap(e.version)]
      [] Arm(e) = "Patch" /\ ini /\ Unwrap(e.data).version > t[e.name] ->
            [t EXCEPT ![e.name] = 0]
      [] OTHER -> t

\* what a reader's call returned: op is "flag" (val: Option<FeatureFlagState>
\* for name), "export" (map) or "-" (no call yet)
MkResult(op, name, val, map) ==
    [op |-> op, name |-> name, val |-> val, map |-> map]

NoResult == MkResult("-", "-", None, EmptyMap)

\* Store::flag: self.flags.load().get(name).cloned()
FlagOf(loaded, name) == MkResult("flag", name, Get(loaded, name), EmptyMap)

\* Store::export_all: self.flags.load().as_ref().clone()
ExportOf(loaded) == MkResult("export", "-", None, loaded)

\* ------------------------------------------------------ message decoding
\* PathBuf::components of the payload's path: "/" is the root component
RootDir == "/"
PathOf(segs) == <<RootDir>> \o segs
EventPaths ==
    {PathOf(<< >>), PathOf(<<"flags">>), PathOf(<<"flags", "a">>),
     PathOf(<<"segments", "s">>)}

\* a serde_json::Value, by what it deserializes into: "flags" is an object
\* with a `flags` mapping, "flag" an object with every field of a
\* FeatureFlagState, "other" any other value
JsonValue(shape, fl, f) == [shape |-> shape, flags |-> fl, flag |-> f]
BlankFlag == [version |-> 1, on |-> FALSE]
SampleFlag == [version |-> 1, on |-> TRUE]
JsonFlags(m) == JsonValue("flags", m, BlankFlag)
JsonFlag(f) == JsonValue("flag", EmptyMap, f)
JsonOther == JsonValue("other", EmptyMap, BlankFlag)

\* the flag maps and flags events carry
EventMaps == {m \in FlagMaps : \A k \in DOMAIN m : m[k] = SampleFlag}
EventFlags == {f \in FeatureFlagState : f.on}
JsonValues ==
    {JsonOther} \cup {JsonFlags(m) : m \in EventMaps}
    \cup {JsonFlag(f) : f \in EventFlags}

\* the bytes of an event's data field: json is FALSE for bytes that are not
\* a JSON object, else path, data and version are the object's fields
Bytes(json, path, data, version) ==
    [json |-> json, path |-> path, data |-> data, version |-> version]
Malformed == Bytes(FALSE, None, None, None)
JsonObjects ==
    {Bytes(TRUE, p, d, v) :
        p \in {None} \cup {Some(q) : q \in EventPaths},
        d \in {None} \cup {Some(j) : j \in JsonValues},
        v \in {None, Some(1)}}

\* eventsource_client::Event: event_type and the field "data"
EventNames == {"put", "patch", "delete", "ping"}
MkEvent(name, data) == [event_type |-> name, data |-> data]
Events ==
    {MkEvent(n, d) :
        n \in EventNames,
        d \in {None} \cup {Some(b) : b \in {Malformed} \cup JsonObjects}}
NoEvent == MkEvent("-", None)

\* Result<Message, MessageParseError>
Decoded(m) == [ok |-> TRUE, msg |-> m, err |-> "-"]
Failed(e) == [ok |-> FALSE, msg |-> NoMsg, err |-> e]
NoItem == [ok |-> FALSE, msg |-> NoMsg, err |-> "-"]

\* serde_json::from_slice::<MessagePayload>: `path` is a PathBuf, a
\* required field; `data` and `version` are Options
PayloadParses(bytes) == bytes.json /\ IsSome(bytes.path)

\* `.skip_while(|s| *s == "/")` over the components
RECURSIVE SkipRoot(_)
SkipRoot(comps) ==
    IF comps # << >> /\ Head(comps) = RootDir THEN SkipRoot(Tail(comps))
    ELSE comps

\* serde_json::from_value::<InitData>
InitDataOf(value) == value.shape = "flags"

\* serde_json::from_value::<FeatureFlagState>
FlagStateOf(value) == value.shape = "flag"

\* impl TryFrom<MessagePayload> for Update, wrapped by the variant t of
\* Message ("Patch" or "Delete")
UpdateOf(t, pl) ==
    LET segments == SkipRoot(Unwrap(pl.path))
    IN  IF segments = << >> THEN Failed("UnknownPath")
        ELSE IF Head(segments) = "flags"
        THEN IF Tail(segments) = << >> THEN Failed("MissingFlagName")
             ELSE IF IsSome(pl.data) /\ ~FlagStateOf(Unwrap(pl.data))
             THEN Failed("InvalidPayload")
             ELSE Decoded(MkMsg(t, EmptyMap, "Flag", Head(Tail(segments)),
                                IF IsSome(pl.data)
                                THEN Some(Unwrap(pl.data).flag) ELSE None,
                                pl.version))
        ELSE Decoded(MkMsg(t, EmptyMap, "Unknown", "-", None, None))

\* the `match name.as_str()` of Message::try_from
MatchName(name, pl) ==
    CASE name = "put" ->
            IF ~IsSome(pl.data) THEN Failed("MissingData")
            ELSE IF ~InitDataOf(Unwrap(pl.data)) THEN Failed("ParsePut")
            ELSE Decoded(MkMsg("Put", Unwrap(pl.data).flags, "-", "-",
                               None, None))
      [] name = "patch" -> UpdateOf("Patch", pl)
      [] name = "delete" -> UpdateOf("Delete", pl)
      [] OTHER -> Decoded(UnknownMsg)

\* impl TryFrom<Event> for Message: the payload is parsed before the name
\* is looked at
TryFromEvent(ev) ==
    IF ~IsSome(ev.data) THEN Failed("MissingEventPayload")
    ELSE IF ~PayloadParses(Unwrap(ev.data)) THEN Failed("ParsePayload")
    ELSE MatchName(ev.event_type, Unwrap(ev.data))

\* MessageStream::poll_next for an event of the inner stream:
\* Some(Ok(message)), or Some(Err(StreamError::Parse(error)))
PollNext(ev) == TryFromEvent(ev)

\* ------------------------------------------------------ f64 arithmetic
\* An f64 that is not negative is a bit vector of FixWidth bits, most
\* significant first, counting units of 2^-FracBits; an integer is the same
\* vector counting units of 1.  IEEE operations are the exact result
\* rounded to 53 significant bits, ties to even.
FracBits == 72
FixWidth == 96
\* significant bits of an f64
Mantissa == 53

Pow2(n) == IF n <= 0 THEN 1 ELSE 2 ^ n

\* a bit vector given as a function, as a sequence
Vec(f) == SubSeq(f, 1, FixWidth)

\* the integer n (below 2^30) as a bit vector
BitsOf(n) ==
    Vec([i \in 1..FixWidth |->
        IF FixWidth - i < 30 THEN (n \div Pow2(FixWidth - i)) % 2 ELSE 0])

ZeroBits == Vec([i \in 1..FixWidth |-> 0])

\* b * 2^k
ShiftLeft(b, k) ==
    Vec([i \in 1..FixWidth |-> IF i + k <= FixWidth THEN b[i + k] ELSE 0])

\* the carry into position i when adding a and b: some lower position
\* makes a carry and every position between passes it on
CarryIn(a, b, i) ==
    \E j \in (i + 1)..FixWidth :
        /\ a[j] = 1 /\ b[j] = 1
        /\ \A k \in (i + 1)..(j - 1) : a[k] + b[k] = 1

\* a + b, exact
AddBits(a, b) ==
    Vec([i \in 1..FixWidth |->
        (a[i] + b[i] + (IF CarryIn(a, b, i) THEN 1 ELSE 0)) % 2])

\* a < b
LessBits(a, b) ==
    \E i \in 1..FixWidth :
        /\ a[i] < b[i]
        /\ \A j \in 1..(i - 1) : a[j] = b[j]

\* position of the leading 1 of b, FixWidth + 1 when b is zero
Leading(b) ==
    IF \A i \in 1..FixWidth : b[i] = 0 THEN FixWidth + 1
    ELSE CHOOSE i \in 1..FixWidth :
            b[i] = 1 /\ \A j \in 1..(i - 1) : b[j] = 0

\* the exact value b (plus a positive rest below one unit when sticky)
\* rounded to an f64: 53 significant bits, round to nearest, ties to even
RoundF64(b, sticky) ==
    LET last == Leading(b) + Mantissa - 1
    IN  IF last >= FixWidth THEN b
        ELSE LET rest == sticky \/ \E j \in (last + 2)..FixWidth : b[j] = 1
                 up == b[last + 1] = 1 /\ (rest \/ b[last] = 1)
                 kept == Vec([i \in 1..FixWidth |-> IF i <= last THEN b[i] ELSE 0])
                 ulp == Vec([i \in 1..FixWidth |-> IF i = last THEN 1 ELSE 0])
             IN  IF up THEN AddBits(kept, ulp) ELSE kept

\* long division works on chunks of ChunkBits bits
ChunkBits == 12
Chunks == FixWidth \div ChunkBits

\* the integer held by bits lo..hi of b
RECURSIVE BitsValue(_, _, _)
BitsValue(b, lo, hi) ==
    IF lo > hi THEN 0 ELSE 2 * BitsValue(b, lo, hi - 1) + b[hi]

\* chunk k of b as an integer
Chunk(b, k) == BitsValue(b, ChunkBits * (k - 1) + 1, ChunkBits * k)

\* the rest of the long division of num by d after k chunks
RECURSIVE DivRest(_, _, _)
DivRest(num, d, k) ==
    IF k = 0 THEN 0
    ELSE (DivRest(num, d, k - 1) * Pow2(ChunkBits) + Chunk(num, k)) % d

\* floor(num / d) for an integer d below 2^19, and whether a rest is left
DivSmall(num, d) ==
    LET digit == SubSeq([k \in 1..Chunks |->
                    (DivRest(num, d, k - 1) * Pow2(ChunkBits) + Chunk(num, k))
                        \div d], 1, Chunks)
    IN  [q |-> Vec([i \in 1..FixWidth |->
                 (digit[((i - 1) \div ChunkBits) + 1]
                    \div Pow2(ChunkBits - 1 - ((i - 1) % ChunkBits))) % 2]),
         sticky |-> DivRest(num, d, Chunks) # 0]

\* `weight as f64 / 100_000f64`: both operands are exact
WeightScale == 100000
WeightFraction(weight) ==
    LET d == DivSmall(ShiftLeft(BitsOf(weight), FracBits), WeightScale)
    IN  RoundF64(d.q, d.sticky)

\* `sum += add`
AddF64(a, b) == RoundF64(AddBits(a, b), FALSE)

\* ------------------------------------------------------------ the bucket
\* number of hex digits of the digest that bucket() keeps
HexDigits == 15

\* the u64 parsed from 15 hex digits (a sequence of digits 0..15)
HexValue(hex) ==
    Vec([i \in 1..FixWidth |->
        LET k == FixWidth - i        \* bit k of the value
        IN  IF k >= 4 * HexDigits THEN 0
            ELSE (hex[HexDigits - (k \div 4)] \div Pow2(k % 4)) % 2])

\* BUCKET_DIVIDER: 0xFFFFFFFFFFFFFFFu64 as f64
BucketDivider == RoundF64(HexValue([i \in 1..HexDigits |-> 15]), FALSE)

\* a / d as an f64 (units of 2^-FracBits) for f64 integers a and d where d
\* is a power of two, which makes the quotient exact
DivPow2(a, d) ==
    CASE \A j \in 1..FixWidth : (j # Leading(d)) => d[j] = 0 ->
            ShiftLeft(a, FracBits - (FixWidth - Leading(d)))

\* Evaluation::bucket from the hex prefix of the digest:
\* `u64::from_str_radix(&hex, 16).unwrap() as f64`, `.div(BUCKET_DIVIDER)`
Bucket(hex) == DivPow2(RoundF64(HexValue(hex), FALSE), BucketDivider)

\* 1.0
OneF64 == ShiftLeft(BitsOf(1), FracBits)

\* ---------------------------------------------------------------- evaluator
\* The flag as the evaluator reads it: a record with the fields key, on,
\* off_variation, prerequisites (a sequence of [key, variation], both
\* Option), targets (a sequence of [values, variation], both Option), rules
\* (a sequence), fallthrough ([variation : Option, rollout : Option of
\* [variations : Option of a sequence of [variation, weight], both Option]])
\* and variations (a sequence of values).

\* recursion depth after which an evaluation is taken not to return
MaxDepth == 3

\* a usize: n when not wrapped, n + 2^64 when wrapped
Usize(n) == [wrapped |-> FALSE, n |-> n]
\* `v as usize` for an i64 v
AsUsize(v) == [wrapped |-> v < 0, n |-> v]
\* `u as i64` for a usize u: n + 2^64 wraps back to n
AsI64(u) == u.n

\* Result<usize, Error>, Result<i64, Error> and Result<(), Error>
Ok(v) == [ok |-> TRUE, val |-> v, err |-> "-"]
Err(e) == [ok |-> FALSE, val |-> 0, err |-> e]
OkUsize(u) == [ok |-> TRUE, val |-> u, err |-> "-"]
ErrUsize(e) == [ok |-> FALSE, val |-> Usize(0), err |-> e]
\* Result<Option<i64>, Error>
OkOpt(o) == [ok |-> TRUE, val |-> o, err |-> "-"]
ErrOpt(e) == [ok |-> FALSE, val |-> None, err |-> e]
\* Result<serde_json::Value, Error>
OkValue(v) == [ok |-> TRUE, val |-> v, err |-> "-"]
ErrValue(e) == [ok |-> FALSE, val |-> "-", err |-> e]
\* the call does not return: the recursion has no end
NoReturn == "NoReturn"

TargetMatchesFirstValue(values, user) ==
    Len(values) > 0 /\ values[1] = user

\* the inner loop of Evaluation::targets: some value of the target is the
\* user's key
TargetMatches(values, user) ==
    \E j \in 1..Len(values) : values[j] = user

\* Evaluation::targets, from target i on
RECURSIVE TargetsFrom(_, _, _)
TargetsFrom(flag, user, i) ==
    IF i > Len(flag.targets) THEN OkOpt(None)
    ELSE LET target == flag.targets[i]
         IN  IF ~(IsSome(target.values) /\ IsSome(target.variation))
             THEN ErrOpt("InvalidTarget")
             ELSE IF TargetMatches(Unwrap(target.values), user)
                  THEN OkOpt(target.variation)
                  ELSE TargetsFrom(flag, user, i + 1)

Targets(flag, user) == TargetsFrom(flag, user, 1)

RulesIgnored(flag) == OkOpt(None)

\* Evaluation::rules
Rules(flag) ==
    IF flag.rules # << >> THEN ErrOpt("UnsupportedRules") ELSE OkOpt(None)

\* the loop of Evaluation::rollout, from variation i on with the weights
\* accumulated so far
RECURSIVE RolloutFrom(_, _, _, _)
RolloutFrom(variations, bucket, sum, i) ==
    IF i > Len(variations) THEN Err("InvalidRollout")
    ELSE LET variation == variations[i]
         IN  IF ~IsSome(variation.weight) THEN Err("InvalidRollout")
             ELSE LET add == WeightFraction(Unwrap(variation.weight))
                      sum2 == AddF64(sum, add)
                  IN  IF LessBits(bucket, sum2)
                      THEN IF IsSome(variation.variation)
                           THEN Ok(Unwrap(variation.variation))
                           ELSE Err("InvalidRollout")
                      ELSE RolloutFrom(variations, bucket, sum2, i + 1)

\* Evaluation::rollout; hex is the prefix of the digest of the flag's key
\* and salt and the user's key
Rollout(rollout, hex) ==
    IF ~IsSome(rollout.variations) \/ Unwrap(rollout.variations) = << >>
    THEN Err("InvalidRollout")
    ELSE RolloutFrom(Unwrap(rollout.variations), Bucket(hex), ZeroBits, 1)

FallthroughRolloutFirst(flag, hex) ==
    IF IsSome(flag.fallthrough.rollout)
    THEN Rollout(Unwrap(flag.fallthrough.rollout), hex)
    ELSE IF IsSome(flag.fallthrough.variation)
    THEN Ok(Unwrap(flag.fallthrough.variation))
    ELSE Err("EmptyFallthrough")

\* Evaluation::fallthrough
Fallthrough(flag, hex) ==
    IF IsSome(flag.fallthrough.variation)
    THEN Ok(Unwrap(flag.fallthrough.variation))
    ELSE IF ~IsSome(flag.fallthrough.rollout) THEN Err("EmptyFallthrough")
    ELSE Rollout(Unwrap(flag.fallthrough.rollout), hex)

\* Evaluation::index once the flag is on and its prerequisites hold:
\* targets, then rules, then the fallthrough
Decide(flag, user, hex) ==
    LET target == Targets(flag, user)
    IN  IF ~target.ok THEN ErrUsize(target.err)
        ELSE IF IsSome(target.val) THEN OkUsize(AsUsize(Unwrap(target.val)))
        ELSE LET rule == Rules(flag)
             IN  IF ~rule.ok THEN ErrUsize(rule.err)
                 ELSE IF IsSome(rule.val)
                 THEN OkUsize(AsUsize(Unwrap(rule.val)))
                 ELSE LET v == Fallthrough(flag, hex)
                      IN  IF v.ok THEN OkUsize(AsUsize(v.val))
                          ELSE ErrUsize(v.err)

OffVariationOfFallthrough(flag) ==
    IF IsSome(flag.fallthrough.variation)
    THEN OkUsize(AsUsize(Unwrap(flag.fallthrough.variation)))
    ELSE OkUsize(Usize(flag.off_variation))

\* `return Ok(self.flag.off_variation)`
OffVariation(flag) == OkUsize(Usize(flag.off_variation))

PrereqMismatchNever(index, expected) == FALSE

\* `index != expected` for the index of a prerequisite flag
PrereqMismatch(index, expected) == AsI64(index) # expected

RECURSIVE Index(_, _, _, _, _)
RECURSIVE PrerequisitesFrom(_, _, _, _, _, _)

\* the loop of Evaluation::prerequisites, from prerequisite i on
PrerequisitesFrom(store, flag, user, dig, depth, i) ==
    IF i > Len(flag.prerequisites) THEN Ok(0)
    ELSE LET prereq == flag.prerequisites[i]
         IN  IF ~(IsSome(prereq.key) /\ IsSome(prereq.variation))
             THEN Err("InvalidPrerequisite")
             ELSE LET found == Get(store, Unwrap(prereq.key))
                      expected == Unwrap(prereq.variation)
                  IN  IF ~IsSome(found) THEN Err("FlagNotFound")
                      ELSE IF ~Unwrap(found).on THEN Err("FlagOff")
                      ELSE IF depth = 0 THEN Err(NoReturn)
                      ELSE LET index ==
                                  Index(store, Unwrap(found), user, dig,
                                        depth - 1)
                           IN  IF ~index.ok THEN Err(index.err)
                               ELSE IF PrereqMismatch(index.val, expected)
                               THEN Err("PrerequisiteFailed")
                               ELSE PrerequisitesFrom(store, flag, user, dig,
                                                      depth, i + 1)

\* variant of Prerequisites: the prerequisites of a prerequisite flag are
\* not checked
PrerequisitesOneLevel(store, flag, user, dig, depth) ==
    IF depth < MaxDepth THEN Ok(0)
    ELSE PrerequisitesFrom(store, flag, user, dig, depth, 1)

\* Evaluation::prerequisites
Prerequisites(store, flag, user, dig, depth) ==
    PrerequisitesFrom(store, flag, user, dig, depth, 1)

\* variant of PrerequisitesIsErr: an error raised while a prerequisite flag
\* was evaluated does not count
PrerequisitesIsErrOwn(prereqs) ==
    prereqs.err \in {"InvalidPrerequisite", "FlagNotFound", "FlagOff",
                     "PrerequisiteFailed"}

\* `self.prerequisites().is_err()`
PrerequisitesIsErr(prereqs) == ~prereqs.ok

\* Evaluation::index
Index(store, flag, user, dig, depth) ==
    IF ~flag.on THEN OffVariation(flag)
    ELSE LET prereqs == Prerequisites(store, flag, user, dig, depth)
         IN  IF prereqs.err = NoReturn THEN ErrUsize(NoReturn)
             ELSE IF PrerequisitesIsErr(prereqs) THEN OffVariation(flag)
             ELSE Decide(flag, user, dig[flag.key])

VecGetWrapping(vec, u) ==
    IF u.n < Len(vec) THEN Some(vec[(u.n % Len(vec)) + 1]) ELSE None

\* Vec::get
VecGet(vec, u) ==
    IF ~u.wrapped /\ u.n < Len(vec) THEN Some(vec[u.n + 1]) ELSE None

\* Evaluation::run
Run(store, flag, user, dig) ==
    LET index == Index(store, flag, user, dig, MaxDepth)
    IN  IF ~index.ok THEN ErrValue(index.err)
        ELSE LET variation == VecGet(flag.variations, index.val)
             IN  IF IsSome(variation) THEN OkValue(Unwrap(variation))
                 ELSE ErrValue("IndexOutOfRange")

\* Evaluator::evaluate
EvaluateFlag(store, key, user, dig) ==
    LET flag == Get(store, key)
    IN  IF ~IsSome(flag) THEN ErrValue("FlagNotFound")
        ELSE Run(store, Unwrap(flag), user, dig)

\* ------------------------------------------------- evaluation inputs
\* FlagBuilder: variations
Variations == <<"v0", "v1", "v2">>
Users == {"u1", "u2"}

Prerequisite(key, variation) == [key |-> key, variation |-> variation]
Target(values, variation) == [values |-> values, variation |-> variation]
WeightedVariation(variation, weight) ==
    [variation |-> variation, weight |-> weight]
RolloutOf(variations) == [variations |-> variations]
FallthroughOf(variation, rollout) ==
    [variation |-> variation, rollout |-> rollout]

Flag(key, on, off, prereqs, targets, rules, ft) ==
    [key |-> key, on |-> on, off_variation |-> off, prerequisites |-> prereqs,
     targets |-> targets, rules |-> rules, fallthrough |-> ft,
     variations |-> Variations]

\* prerequisites on the flag "g"; "h" is never in the store
PrereqLists ==
    { << >>,
      <<Prerequisite(Some("g"), Some(0))>>,
      <<Prerequisite(Some("g"), Some(1))>>,
      <<Prerequisite(Some("g"), Some(1)), Prerequisite(Some("h"), Some(0))>>,
      <<Prerequisite(Some("g"), None)>>,
      <<Prerequisite(None, Some(0))>>,
      <<Prerequisite(Some("f"), Some(0))>>,
      <<Prerequisite(Some("h"), Some(0)), Prerequisite(Some("f"), Some(0))>> }

TargetLists ==
    { << >>,
      <<Target(Some(<<"u1">>), Some(1))>>,
      <<Target(Some(<<"u2">>), Some(0)), Target(Some(<<"u2", "u1">>), Some(1))>>,
      <<Target(None, Some(1))>>,
      <<Target(Some(<<"u1">>), Some(1)), Target(Some(<<"u2">>), None)>>,
      <<Target(None, Some(0)), Target(Some(<<"u1">>), Some(1))>>,
      <<Target(Some(<<"u1">>), Some(-1))>> }

RuleLists == {<< >>, <<"rule">>}

\* rollouts given as the (variation, weight) pairs of
\* FlagBuilder::with_fallthrough_rollout
Split(pairs) ==
    RolloutOf(Some([i \in 1..Len(pairs) |->
        WeightedVariation(Some(pairs[i][1]), Some(pairs[i][2]))]))

\* rollouts whose weights add up to 100000
FullRollouts ==
    { Split(<<<<0, 30000>>, <<1, 70000>>>>),
      Split(<<<<0, 20000>>, <<1, 70000>>, <<2, 10000>>>>),
      Split(<<<<0, 50000>>, <<1, 50000>>>>),
      Split(<<<<0, 0>>, <<1, 100000>>>>),
      Split(<<<<2, 100000>>>>) }

\* rollouts of inconsistent data
BadRollouts ==
    { Split(<<<<0, 30000>>, <<1, 30000>>>>),
      RolloutOf(Some(<<WeightedVariation(Some(0), None)>>)),
      RolloutOf(Some(<<WeightedVariation(None, Some(100000))>>)),
      RolloutOf(Some(<< >>)),
      RolloutOf(None) }

Rollouts == FullRollouts \cup BadRollouts

FixedFallthroughs ==
    { FallthroughOf(Some(1), None),
      FallthroughOf(Some(-1), None),
      FallthroughOf(Some(1), Some(Split(<<<<2, 100000>>>>))),
      FallthroughOf(None, None),
      FallthroughOf(None, Some(Split(<<<<0, 30000>>, <<1, 70000>>>>))) }

\* prefixes of the digest: the least and the greatest, and the ones around
\* the cumulative weights of the rollouts
Hex15(head, digit, tail) ==
    head \o [i \in 1..(HexDigits - Len(head) - Len(tail)) |-> digit] \o tail
Prefixes ==
    { Hex15(<< >>, 0, << >>),
      Hex15(<< >>, 3, <<2, 15>>),
      Hex15(<< >>, 3, <<3, 0>>),
      Hex15(<<4>>, 12, <<10, 0>>),
      Hex15(<<4>>, 12, <<10, 1>>),
      Hex15(<<7>>, 15, <<13, 15>>),
      Hex15(<<7>>, 15, <<14, 0>>),
      Hex15(<<14>>, 6, <<5, 11, 15>>),
      Hex15(<<14>>, 6, <<5, 12, 0>>),
      Hex15(<< >>, 15, <<4, 0>>),
      Hex15(<< >>, 15, <<4, 1>>),
      Hex15(<< >>, 15, <<11, 15>>),
      Hex15(<< >>, 15, <<12, 0>>),
      Hex15(<< >>, 15, << >>) }

ZeroDigest == [k \in {"f", "g"} |-> Hex15(<< >>, 0, << >>)]

\* the flag "g" as a prerequisite
PrereqFlags ==
    { Flag("g", on, 1, << >>, targets, rules, ft) :
        on \in BOOLEAN,
        targets \in {<< >>, <<Target(None, Some(1))>>},
        rules \in RuleLists,
        ft \in { FallthroughOf(Some(0), None), FallthroughOf(Some(1), None),
                 FallthroughOf(None, None),
                 FallthroughOf(None, Some(RolloutOf(None))) } }
    \cup { Flag("g", TRUE, 1, <<Prerequisite(Some("f"), Some(0))>>, << >>,
                << >>, FallthroughOf(Some(1), None)) }

StoreOf(fs) == [k \in {f.key : f \in fs} |-> CHOOSE f \in fs : f.key = k]

Input(store, key, user, dig) ==
    [store |-> store, key |-> key, user |-> user, digest |-> dig]

\* prerequisites in every shape, against every prerequisite flag
PrereqInputs ==
    { Input(StoreOf({Flag("f", on, off, prereqs, targets, rules, ft)} \cup gs),
            "f", user, ZeroDigest) :
        on \in BOOLEAN, off \in {0, 3}, prereqs \in PrereqLists,
        targets \in {<< >>, <<Target(Some(<<"u1">>), Some(1))>>},
        rules \in RuleLists,
        ft \in {FallthroughOf(Some(1), None), FallthroughOf(None, None)},
        gs \in {{}} \cup {{g} : g \in PrereqFlags}, user \in Users }

\* targets, rules and fallthroughs in every shape
StepInputs ==
    { Input(StoreOf({Flag("f", on, off, prereqs, targets, rules, ft)} \cup gs),
            "f", user, ZeroDigest) :
        on \in BOOLEAN, off \in {0, 3},
        prereqs \in {<< >>, <<Prerequisite(Some("g"), Some(1))>>},
        targets \in TargetLists, rules \in RuleLists,
        ft \in FixedFallthroughs,
        gs \in { {},
                 {Flag("g", TRUE, 1, << >>, << >>, << >>,
                       FallthroughOf(Some(1), None))},
                 {Flag("g", TRUE, 1, << >>, << >>, << >>,
                       FallthroughOf(Some(0), None))} },
        user \in Users }

\* every rollout against every prefix
RolloutInputs ==
    { Input(StoreOf({Flag("f", TRUE, 0, << >>, << >>, << >>,
                          FallthroughOf(None, Some(r)))}),
            "f", user, [k \in {"f", "g"} |-> hex]) :
        r \in Rollouts, hex \in Prefixes, user \in Users }

\* a key that is not in the store
MissingInputs ==
    { Input(StoreOf(gs), "f", user, ZeroDigest) :
        gs \in {{}} \cup {{g} : g \in PrereqFlags}, user \in Users }

Inputs == PrereqInputs \cup StepInputs \cup RolloutInputs \cup MissingInputs

\* the maps a writer stores while "f" is evaluated: "f" expects variation p
\* of "g" and falls through to a, "g" falls through to b
RaceStores ==
    { StoreOf({Flag("f", TRUE, 0, <<Prerequisite(Some("g"), Some(p))>>,
                    << >>, << >>, FallthroughOf(Some(a), None)),
               Flag("g", TRUE, 0, << >>, << >>, << >>,
                    FallthroughOf(Some(b), None))}) :
        p \in {0, 1}, a \in {1, 2}, b \in {0, 1} }
    \cup {StoreOf({})}

RaceInputs == { Input(st, "f", "u1", ZeroDigest) : st \in RaceStores }

\* placeholders of the state of an evaluation that is not modelled
NoFlags == << >>
NoDigest == << >>
NoEval == [ok |-> FALSE, val |-> "-", err |-> "-"]
NoIndex == [ok |-> FALSE, val |-> [wrapped |-> FALSE, n |-> 0], err |-> "-"]

\* -------------------------------------------------------------------- state
VARIABLES
    flags,        \* MemoryStore.flags: the map readers load
    init,         \* MemoryStore.init
    source,       \* the Source given to read_from: "live" or "failing"
    pc,           \* position of the background task
    msg,          \* message being consumed
    updated,      \* the task's local `updated` (Option of a map)
    ret,          \* InitState returned by consume: "Pending", "Done", "-"
    failures,     \* the loop's failure counter
    streamCalls,  \* calls of source.stream() so far
    errors,       \* stream item errors so far
    consec,       \* stream item errors since the last decoded message
    slot,         \* value of the watch channel: "None", "Ok", "RetryFailed"
    first,        \* first value the channel was sent
    rxChanged,    \* the receiver has not yet seen the channel's version
    txClosed,     \* init_tx was dropped
    sent,         \* last value the task handed to init_tx.send
    wpc,          \* position of the readiness future
    wres,         \* what the readiness future resolved with
    rres,         \* what the reader's last flag / export_all call returned
    rahead,       \* that call returned the map of the message in flight
    pre,          \* map when the message being consumed was taken
    preInit,      \* init when the message being consumed was taken
    taken,        \* DefaultClient.source is None (the source was taken)
    tasks,        \* consumer tasks spawned so far
    starts,       \* calls of DefaultClient::start so far
    startRes,     \* what a start that did not reach read_from returned
    estore,       \* the Store an Evaluator reads
    ekey,         \* flag key given to evaluate
    euser,        \* key of the User given to evaluate
    digest,       \* for each flag key, the 15 hex digits of its SHA-1 prefix
    eidx,         \* what Evaluation::index returned to run
    eres,         \* what evaluate returned
    event,        \* the SSE event the message stream polled last
    item,         \* what MessageStream::poll_next made of that event
    tomb,         \* for each key, the version of the Delete that removed it
                  \* and that no Put or newer Patch followed (0: none)
    etop,         \* the flag evaluate got from the store (Option)
    eheld,        \* the maps the store held while evaluate was running
    writes,       \* maps stored while an Evaluator was reading the store
    cpc,          \* for each caller of consume, its position
    cmsg,         \* for each caller, the message it is consuming
    cupd,         \* for each caller, its local `updated` (Option of a map)
    cret,         \* for each caller, what its last call returned
    cown          \* for each caller, what its last applied Patch left
                  \* under its key (Option of a flag)

storeVars == <<flags, init>>
taskVars == <<pc, msg, updated, ret, failures, streamCalls, errors, consec>>
chanVars == <<slot, first, rxChanged, txClosed, sent>>
waitVars == <<wpc, wres>>
readVars == <<rres, rahead>>
ghostVars == <<pre, preInit>>
clientVars == <<taken, tasks, starts, startRes>>
evalVars == <<estore, ekey, euser, digest, eidx, eres>>
decodeVars == <<event, item>>
histVars == <<tomb>>
raceVars == <<etop, eheld, writes>>
callVars == <<cpc, cmsg, cupd, cret, cown>>
auxVars == <<decodeVars, histVars, raceVars, callVars>>
vars == <<storeVars, source, taskVars, chanVars, waitVars, readVars, ghostVars,
          clientVars, evalVars, auxVars>>

Sources == {"live", "failing"}

\* the tasks that call consume on one store, each patching its own key
Callers == {1, 2}
CallerKey(c) == IF c = 1 THEN "a" ELSE "b"

\* nothing was consumed, sent or read yet
InitLocals ==
    /\ msg = NoMsg
    /\ updated = None
    /\ ret = "-"
    /\ failures = 0
    /\ errors = 0
    /\ consec = 0
    /\ slot = "None"
    /\ first = "None"
    /\ rxChanged = FALSE
    /\ txClosed = FALSE
    /\ sent = "None"
    /\ wres = "-"
    /\ rres = NoResult
    /\ rahead = FALSE
    /\ pre = EmptyMap
    /\ preInit = FALSE

\* MemoryStore::default and the rest of the state before anything ran
InitStore ==
    /\ flags = EmptyMap
    /\ init = FALSE
    /\ InitLocals

\* no evaluation is modelled
InitNoEval ==
    /\ estore = NoFlags
    /\ ekey = "-"
    /\ euser = "-"
    /\ digest = NoDigest
    /\ eidx = NoIndex
    /\ eres = NoEval

\* the message stream is not modelled: messages arrive decoded
InitNoDecode ==
    /\ event = NoEvent
    /\ item = NoItem

\* the parts of the state only some specifications drive
\* no evaluation is under way
InitNoRace ==
    /\ etop = None
    /\ eheld = {}
    /\ writes = 0

\* no caller of consume besides the background task
InitNoCallers ==
    /\ cpc = [c \in Callers |-> "idle"]
    /\ cmsg = [c \in Callers |-> NoMsg]
    /\ cupd = [c \in Callers |-> None]
    /\ cret = [c \in Callers |-> "-"]
    /\ cown = [c \in Callers |-> None]

InitIdle ==
    /\ InitNoDecode
    /\ tomb = NoTombs
    /\ InitNoRace
    /\ InitNoCallers

\* read_from was just called (by the first start, or directly):
\* watch::channel(None), task::spawn: source.stream() is called once and
\* failures is 0
Init ==
    /\ InitStore
    /\ InitNoEval
    /\ InitIdle
    /\ source \in Sources
    /\ pc = "next"
    /\ streamCalls = 1
    /\ wpc = "start"
    /\ taken = TRUE
    /\ tasks = 1
    /\ starts = 1
    /\ startRes = "-"

\* DefaultClient::new: the source is held, nothing was started
InitClient ==
    /\ InitStore
    /\ InitNoEval
    /\ InitIdle
    /\ source \in Sources
    /\ pc = "unstarted"
    /\ streamCalls = 0
    /\ wpc = "unstarted"
    /\ taken = FALSE
    /\ tasks = 0
    /\ starts = 0
    /\ startRes = "-"

\* an Evaluator over a store that holds the flags of the input; nothing
\* of the client runs
InitEval ==
    /\ InitStore
    /\ InitIdle
    /\ source = "live"
    /\ pc = "unstarted"
    /\ streamCalls = 0
    /\ wpc = "unstarted"
    /\ taken = FALSE
    /\ tasks = 0
    /\ starts = 0
    /\ startRes = "-"
    /\ \E in \in Inputs :
        /\ estore = in.store
        /\ ekey = in.key
        /\ euser = in.user
        /\ digest = in.digest
    /\ eidx = NoIndex
    /\ eres = NoEval

\* ------------------------------------------------------ the watch channel
\* watch::Sender::send: fails, storing nothing, when the receiver is gone
SendOk(v) == wpc # "dropped"

\* variant of Send: the receiver is notified, the value is not stored
SendNotifyOnly(v) ==
    /\ sent' = v
    /\ IF SendOk(v)
       THEN /\ slot' = slot
            /\ rxChanged' = TRUE
            /\ first' = IF first = "None" THEN v ELSE first
       ELSE UNCHANGED <<slot, rxChanged, first>>

\* watch::Sender::send: the value is stored, then the receiver notified
Send(v) ==
    /\ sent' = v
    /\ IF SendOk(v)
       THEN /\ slot' = v
            /\ rxChanged' = TRUE
            /\ first' = IF first = "None" THEN v ELSE first
       ELSE UNCHANGED <<slot, rxChanged, first>>

\* ----------------------------------------------------- the background task
\* consume returned: where the task goes for the arm of the message
ArmPc(m) ==
    CASE Arm(m) = "Put" -> "put_flags"
      [] Arm(m) = "Patch" -> "upd_init"
      [] Arm(m) = "Delete" -> "upd_init"
      [] OTHER -> "fallback"

\* variant of StreamOk: the failure counter is not reset
StreamOkNoReset ==
    /\ pc = "next"
    /\ source = "live"
    /\ \E m \in Messages :
        /\ msg' = m
        /\ pc' = ArmPc(m)
    /\ consec' = 0
    /\ UNCHANGED <<storeVars, source, updated, ret, failures, streamCalls,
                   errors, chanVars, waitVars, readVars, ghostVars, clientVars,
                   evalVars, auxVars>>

\* stream.next() yields Some(Ok(msg)): failures = 0, then consume(msg)
StreamOk ==
    /\ pc = "next"
    /\ source = "live"
    /\ \E m \in Messages :
        /\ msg' = m
        /\ pc' = ArmPc(m)
    /\ failures' = 0
    /\ consec' = 0
    /\ UNCHANGED <<storeVars, source, updated, ret, streamCalls, errors,
                   chanVars, waitVars, readVars, ghostVars, clientVars,
                   evalVars, auxVars>>

\* variant of StreamErr: the loop condition is `failures <= 4`
StreamErrOffByOne ==
    /\ pc = "next"
    /\ errors < MaxErrors
    /\ failures' = failures + 1
    /\ consec' = consec + 1
    /\ errors' = errors + 1
    /\ streamCalls' = streamCalls + 1
    /\ pc' = IF failures' <= RetryLimit THEN "next" ELSE "giveup"
    /\ UNCHANGED <<storeVars, source, msg, updated, ret, chanVars, waitVars,
                   readVars, ghostVars, clientVars,
                   evalVars, auxVars>>

\* stream.next() yields Some(Err(error)): failures += 1, a fresh stream,
\* continue: the loop condition sends the task on or out
StreamErr ==
    /\ pc = "next"
    /\ errors < MaxErrors
    /\ failures' = failures + 1
    /\ consec' = consec + 1
    /\ errors' = errors + 1
    /\ streamCalls' = streamCalls + 1
    /\ pc' = IF failures' < RetryLimit THEN "next" ELSE "giveup"
    /\ UNCHANGED <<storeVars, source, msg, updated, ret, chanVars, waitVars,
                   readVars, ghostVars, clientVars,
                   evalVars, auxVars>>

\* stream.next() yields None: return, which drops init_tx
StreamEnd ==
    /\ pc = "next"
    /\ source = "live"
    /\ pc' = "ended"
    /\ txClosed' = TRUE
    /\ UNCHANGED <<storeVars, source, msg, updated, ret, failures,
                   streamCalls, errors, consec, slot, first, rxChanged, sent,
                   waitVars, readVars, ghostVars, clientVars,
                   evalVars, auxVars>>

\* stream.next() over a MessageStream yields the item decoded from an event:
\* Some(Ok(msg)) resets failures and is consumed, Some(Err(error)) counts as
\* a failure and a fresh stream is taken
StreamEvent ==
    /\ pc = "next"
    /\ source = "live"
    /\ \E ev \in Events :
        /\ event' = ev
        /\ item' = PollNext(ev)
    /\ IF item'.ok
       THEN /\ msg' = item'.msg
            /\ pc' = ArmPc(item'.msg)
            /\ failures' = 0
            /\ consec' = 0
            /\ UNCHANGED <<errors, streamCalls>>
       ELSE /\ errors < MaxErrors
            /\ failures' = failures + 1
            /\ consec' = consec + 1
            /\ errors' = errors + 1
            /\ streamCalls' = streamCalls + 1
            /\ pc' = IF failures' < RetryLimit THEN "next" ELSE "giveup"
            /\ msg' = msg
    /\ UNCHANGED <<storeVars, source, updated, ret, chanVars, waitVars,
                   readVars, ghostVars, clientVars, evalVars, histVars,
                   raceVars, callVars>>

\* Put arm, self.flags.store(Arc::new(flags))
PutStoreFlags ==
    /\ pc = "put_flags"
    /\ flags' = Swap(flags, msg.flags)
    /\ pc' = "put_init"
    /\ UNCHANGED <<init, source, msg, updated, ret, failures, streamCalls,
                   errors, consec, chanVars, waitVars, readVars, ghostVars, clientVars,
                   evalVars, auxVars>>

\* variant of PutStoreInit: a Put without flags leaves the store
\* uninitialised
PutStoreInitIfFlags ==
    /\ pc = "put_init"
    /\ init' = (msg.flags # EmptyMap)
    /\ ret' = "Done"
    /\ pc' = "send"
    /\ UNCHANGED <<flags, source, msg, updated, failures, streamCalls,
                   errors, consec, chanVars, waitVars, readVars, ghostVars, clientVars,
                   evalVars, auxVars>>

\* Put arm, self.init.store(true), then Done
PutStoreInit ==
    /\ pc = "put_init"
    /\ init' = TRUE
    /\ ret' = "Done"
    /\ pc' = "send"
    /\ UNCHANGED <<flags, source, msg, updated, failures, streamCalls,
                   errors, consec, chanVars, waitVars, readVars, ghostVars, clientVars,
                   evalVars, auxVars>>

\* Patch and Delete arms, `if !self.init.load(..) { return Pending }`
UpdLoadInit ==
    /\ pc = "upd_init"
    /\ IF init
       THEN /\ pc' = "upd_load"
            /\ ret' = ret
       ELSE /\ pc' = "send"
            /\ ret' = "Pending"
    /\ UNCHANGED <<storeVars, source, msg, updated, failures, streamCalls,
                   errors, consec, chanVars, waitVars, readVars, ghostVars, clientVars,
                   evalVars, auxVars>>

\* variant of PatchLoad: the map is mutated in place, the old entry is
\* taken out of the visible map before the new one is stored
PatchLoadInPlace ==
    /\ pc = "upd_load"
    /\ Arm(msg) = "Patch"
    /\ IF PatchIgnored(flags, msg.name, Unwrap(msg.data))
       THEN /\ updated' = updated
            /\ ret' = "Done"
            /\ pc' = "send"
            /\ flags' = flags
       ELSE /\ updated' = Some(PatchUpdated(flags, msg.name, Unwrap(msg.data)))
            /\ ret' = ret
            /\ pc' = "upd_store"
            /\ flags' = Remove(flags, msg.name)
    /\ UNCHANGED <<init, source, msg, failures, streamCalls, errors,
                   consec, chanVars, waitVars, readVars, ghostVars, clientVars,
                   evalVars, auxVars>>

\* Patch arm, self.flags.load(): stale check and the updated clone
PatchLoad ==
    /\ pc = "upd_load"
    /\ Arm(msg) = "Patch"
    /\ IF PatchIgnored(flags, msg.name, Unwrap(msg.data))
       THEN /\ updated' = updated
            /\ ret' = "Done"
            /\ pc' = "send"
       ELSE /\ updated' = Some(PatchUpdated(flags, msg.name, Unwrap(msg.data)))
            /\ ret' = ret
            /\ pc' = "upd_store"
    /\ UNCHANGED <<storeVars, source, msg, failures, streamCalls, errors,
                   consec, chanVars, waitVars, readVars, ghostVars, clientVars,
                   evalVars, auxVars>>

\* Delete arm, self.flags.load(): the Option of the updated clone
DeleteLoad ==
    /\ pc = "upd_load"
    /\ Arm(msg) = "Delete"
    /\ updated' = DeleteUpdated(flags, msg.name, Unwrap(msg.version))
    /\ IF IsSome(updated')
       THEN /\ ret' = ret
            /\ pc' = "upd_store"
       ELSE /\ ret' = "Done"
            /\ pc' = "send"
    /\ UNCHANGED <<storeVars, source, msg, failures, streamCalls, errors,
                   consec, chanVars, waitVars, readVars, ghostVars, clientVars,
                   evalVars, auxVars>>

\* Patch and Delete arms, self.flags.store(Arc::new(updated)), then Done
UpdStore ==
    /\ pc = "upd_store"
    /\ flags' = Swap(flags, Unwrap(updated))
    /\ updated' = None
    /\ ret' = "Done"
    /\ pc' = "send"
    /\ UNCHANGED <<init, source, msg, failures, streamCalls, errors, consec,
                   chanVars, waitVars, readVars, ghostVars, clientVars,
                   evalVars, auxVars>>

\* variant of Fallback: an uninitialised store answers Pending, as the
\* Patch and Delete arms do
FallbackPending ==
    /\ pc = "fallback"
    /\ ret' = IF init THEN "Done" ELSE "Pending"
    /\ pc' = "send"
    /\ UNCHANGED <<storeVars, source, msg, updated, failures, streamCalls,
                   errors, consec, chanVars, waitVars, readVars, ghostVars, clientVars,
                   evalVars, auxVars>>

\* fallback arm `msg => { warn!(..) }`, then Done
Fallback ==
    /\ pc = "fallback"
    /\ ret' = "Done"
    /\ pc' = "send"
    /\ UNCHANGED <<storeVars, source, msg, updated, failures, streamCalls,
                   errors, consec, chanVars, waitVars, readVars, ghostVars, clientVars,
                   evalVars, auxVars>>

\* variant of AfterConsume: the task ends when the send fails
AfterConsumeStopsOnSendError ==
    /\ pc = "send"
    /\ IF ret = "Done"
       THEN Send("Ok")
       ELSE UNCHANGED <<slot, rxChanged, first, sent>>
    /\ pc' = IF ret = "Done" /\ ~SendOk("Ok") THEN "exit" ELSE "next"
    /\ msg' = NoMsg
    /\ ret' = "-"
    /\ pre' = flags
    /\ preInit' = init
    /\ rahead' = FALSE
    /\ UNCHANGED <<storeVars, source, updated, failures, streamCalls, errors,
                   consec, txClosed, waitVars, rres, clientVars, evalVars, auxVars>>

\* `match self.consume(msg).await`: Done sends Some(Ok(())), Pending
\* sends nothing; then the loop goes on (failures is 0)
AfterConsume ==
    /\ pc = "send"
    /\ IF ret = "Done"
       THEN Send("Ok")
       ELSE UNCHANGED <<slot, rxChanged, first, sent>>
    /\ pc' = "next"
    /\ msg' = NoMsg
    /\ ret' = "-"
    /\ pre' = flags
    /\ preInit' = init
    /\ rahead' = FALSE
    /\ UNCHANGED <<storeVars, source, updated, failures, streamCalls, errors,
                   consec, txClosed, waitVars, rres, clientVars, evalVars, auxVars>>

\* after the loop: init_tx.send(Some(Err(RetryFailed))), end of the task
GiveUp ==
    /\ pc = "giveup"
    /\ Send("RetryFailed")
    /\ pc' = "exit"
    /\ UNCHANGED <<storeVars, source, msg, updated, ret, failures,
                   streamCalls, errors, consec, txClosed, waitVars, readVars, ghostVars, clientVars,
                   evalVars, auxVars>>

\* the task's closure ends: init_tx is dropped
TaskExit ==
    /\ pc = "exit"
    /\ txClosed' = TRUE
    /\ pc' = "ended"
    /\ UNCHANGED <<storeVars, source, msg, updated, ret, failures,
                   streamCalls, errors, consec, slot, first, rxChanged, sent,
                   waitVars, readVars, ghostVars, clientVars,
                   evalVars, auxVars>>

\* --------------------------------------------------- the readiness future
\* `if init_rx.borrow().is_none()`
WaiterCheck ==
    /\ wpc = "start"
    /\ wpc' = IF slot = "None" THEN "changed" ELSE "read"
    /\ UNCHANGED <<storeVars, source, taskVars, chanVars, wres, readVars, ghostVars, clientVars,
                   evalVars, auxVars>>

\* variant of WaiterChanged: a gone sender is reported before an unseen
\* version
WaiterChangedClosedFirst ==
    /\ wpc = "changed"
    /\ \/ /\ txClosed
          /\ rxChanged' = rxChanged
          /\ wpc' = "done"
          /\ wres' = "TaskDropped"
       \/ /\ ~txClosed
          /\ rxChanged
          /\ rxChanged' = FALSE
          /\ wpc' = "read"
          /\ wres' = wres
    /\ UNCHANGED <<storeVars, source, taskVars, slot, first, txClosed, sent,
                   readVars, ghostVars, clientVars,
                   evalVars, auxVars>>

\* init_rx.changed().await: Ok when the version is unseen, else Err (mapped
\* to TaskDropped) when the sender is gone, else it stays pending
WaiterChanged ==
    /\ wpc = "changed"
    /\ \/ /\ rxChanged
          /\ rxChanged' = FALSE
          /\ wpc' = "read"
          /\ wres' = wres
       \/ /\ ~rxChanged
          /\ txClosed
          /\ rxChanged' = rxChanged
          /\ wpc' = "done"
          /\ wres' = "TaskDropped"
    /\ UNCHANGED <<storeVars, source, taskVars, slot, first, txClosed, sent,
                   readVars, ghostVars, clientVars,
                   evalVars, auxVars>>

\* `init_rx.borrow().as_ref().cloned().unwrap()`
WaiterRead ==
    /\ wpc = "read"
    /\ IF slot = "None"
       THEN /\ wpc' = "panicked"
            /\ wres' = wres
       ELSE /\ wpc' = "done"
            /\ wres' = slot
    /\ UNCHANGED <<storeVars, source, taskVars, chanVars, readVars, ghostVars, clientVars,
                   evalVars, auxVars>>

\* the caller drops the future before it resolved: init_rx is dropped
WaiterDrop ==
    /\ wpc \in {"start", "changed", "read"}
    /\ wpc' = "dropped"
    /\ UNCHANGED <<storeVars, source, taskVars, chanVars, wres, readVars, ghostVars, clientVars,
                   evalVars, auxVars>>

\* -------------------------------------------------------- DefaultClient
\* variant of ClientStart: the source is borrowed, not taken
ClientStartNoTake ==
    /\ wpc \in {"unstarted", "done", "dropped"}
    /\ starts < MaxStarts
    /\ starts' = starts + 1
    /\ tasks' = tasks + 1
    /\ pc' = "next"
    /\ streamCalls' = 1
    /\ wpc' = "start"
    /\ UNCHANGED <<storeVars, source, msg, updated, ret, failures, errors,
                   consec, chanVars, wres, readVars, ghostVars, taken,
                   startRes, evalVars, auxVars>>

\* DefaultClient::start: self.source.take().ok_or(AlreadyStarted)?, then
\* read_from (channel, task::spawn, first source.stream()).  start borrows
\* the client mutably, so no earlier start future is still alive.
ClientStart ==
    /\ wpc \in {"unstarted", "done", "dropped"}
    /\ starts < MaxStarts
    /\ starts' = starts + 1
    /\ IF ~taken
       THEN /\ taken' = TRUE
            /\ tasks' = tasks + 1
            /\ pc' = "next"
            /\ streamCalls' = 1
            /\ wpc' = "start"
            /\ startRes' = startRes
       ELSE /\ startRes' = "AlreadyStarted"
            /\ UNCHANGED <<taken, tasks, pc, streamCalls, wpc>>
    /\ UNCHANGED <<storeVars, source, msg, updated, ret, failures, errors,
                   consec, chanVars, wres, readVars, ghostVars, evalVars, auxVars>>

\* ---------------------------------------------------------------- a reader
\* the complete map the message in flight leaves (pre when none is)
Post == IF msg = NoMsg THEN pre ELSE ConsumeFlags(pre, preInit, msg)

\* MemoryStore::flag(name), one atomic load
ReaderFlag ==
    /\ \E name \in Keys :
        /\ rres' = FlagOf(flags, name)
        /\ rahead' = (rres' # FlagOf(pre, name))
    /\ UNCHANGED <<storeVars, source, taskVars, chanVars, waitVars, ghostVars, clientVars,
                   evalVars, auxVars>>

\* MemoryStore::export_all(), one atomic load
ReaderExport ==
    /\ rres' = ExportOf(flags)
    /\ rahead' = (rres' # ExportOf(pre))
    /\ UNCHANGED <<storeVars, source, taskVars, chanVars, waitVars, ghostVars, clientVars,
                   evalVars, auxVars>>

Task ==
    \/ StreamOk
    \/ StreamErr
    \/ StreamEnd
    \/ PutStoreFlags
    \/ PutStoreInit
    \/ UpdLoadInit
    \/ PatchLoad
    \/ DeleteLoad
    \/ UpdStore
    \/ Fallback
    \/ AfterConsume
    \/ GiveUp
    \/ TaskExit

Waiter ==
    \/ WaiterCheck
    \/ WaiterChanged
    \/ WaiterRead
    \/ WaiterDrop

Reader ==
    \/ ReaderFlag
    \/ ReaderExport

\* read_from: the background task and the readiness future
Next == Task \/ Waiter

Spec == Init /\ [][Next]_vars

\* the background task writing the store while a reader reads it
NextRead == Task \/ Reader

SpecRead == Init /\ [][NextRead]_vars

\* a DefaultClient from construction on: start, the task, the future
NextClient == ClientStart \/ Task \/ Waiter

SpecClient == InitClient /\ [][NextClient]_vars

\* the background task reading a MessageStream over raw events
NextDecode ==
    \/ StreamEvent
    \/ PutStoreFlags
    \/ PutStoreInit
    \/ UpdLoadInit
    \/ PatchLoad
    \/ DeleteLoad
    \/ UpdStore
    \/ Fallback
    \/ AfterConsume
    \/ GiveUp
    \/ TaskExit

\* read_from was just called with a source that delivers events
InitDecode ==
    /\ Init
    /\ source = "live"

SpecDecode == InitDecode /\ [][NextDecode]_vars

\* ------------------------------------------------- one caller of consume
\* store.consume(msg).await by a caller that holds the store alone: the
\* whole call, from the match to the returned InitState
Apply ==
    /\ pc = "unstarted"
    /\ \E m \in Messages :
        /\ msg' = m
        /\ flags' = ConsumeFlags(flags, init, m)
        /\ init' = ConsumeInit(init, m)
        /\ ret' = ConsumeReturn(init, m)
        /\ tomb' = TombsAfter(tomb, flags, flags', init, m)
    /\ pre' = flags
    /\ preInit' = init
    /\ UNCHANGED <<source, pc, updated, failures, streamCalls, errors, consec,
                   chanVars, waitVars, readVars, clientVars, evalVars,
                   decodeVars, raceVars, callVars>>

NextApply == Apply

\* a MemoryStore and the messages applied to it one after the other:
\* a new MemoryStore, no task started
InitApply ==
    /\ InitClient
    /\ source = "live"

SpecApply == InitApply /\ [][NextApply]_vars

\* ------------------------------------------------ several callers of consume
\* the Patch messages caller c applies: for its own key, with data
CallerMsgs(c) ==
    {MkMsg("Patch", EmptyMap, "Flag", CallerKey(c), Some(f), None) :
        f \in EventFlags}

\* caller c calls consume(Patch): the match and
\* `if !self.init.load(..) { return Pending }`
CallerConsume(c) ==
    /\ cpc[c] = "idle"
    /\ \E m \in CallerMsgs(c) : cmsg' = [cmsg EXCEPT ![c] = m]
    /\ IF init
       THEN /\ cpc' = [cpc EXCEPT ![c] = "load"]
            /\ cret' = [cret EXCEPT ![c] = "-"]
       ELSE /\ cpc' = cpc
            /\ cret' = [cret EXCEPT ![c] = "Pending"]
    /\ UNCHANGED <<storeVars, source, taskVars, chanVars, waitVars, readVars,
                   ghostVars, clientVars, evalVars, decodeVars, histVars,
                   raceVars, cupd, cown>>

\* Patch arm in caller c, self.flags.load(): stale check and the updated
\* clone
CallerLoad(c) ==
    /\ cpc[c] = "load"
    /\ IF PatchIgnored(flags, cmsg[c].name, Unwrap(cmsg[c].data))
       THEN /\ cupd' = cupd
            /\ cret' = [cret EXCEPT ![c] = "Done"]
            /\ cpc' = [cpc EXCEPT ![c] = "idle"]
       ELSE /\ cupd' = [cupd EXCEPT ![c] =
                          Some(PatchUpdated(flags, cmsg[c].name,
                                            Unwrap(cmsg[c].data)))]
            /\ cret' = cret
            /\ cpc' = [cpc EXCEPT ![c] = "store"]
    /\ UNCHANGED <<storeVars, source, taskVars, chanVars, waitVars, readVars,
                   ghostVars, clientVars, evalVars, decodeVars, histVars,
                   raceVars, cmsg, cown>>

\* Patch arm in caller c, self.flags.store(Arc::new(updated)), then Done
CallerStore(c) ==
    /\ cpc[c] = "store"
    /\ flags' = Swap(flags, Unwrap(cupd[c]))
    /\ cupd' = [cupd EXCEPT ![c] = None]
    /\ cret' = [cret EXCEPT ![c] = "Done"]
    /\ cpc' = [cpc EXCEPT ![c] = "idle"]
    /\ cown' = [cown EXCEPT ![c] = cmsg[c].data]
    /\ UNCHANGED <<init, source, taskVars, chanVars, waitVars, readVars,
                   ghostVars, clientVars, evalVars, decodeVars, histVars,
                   raceVars, cmsg>>

NextCallers ==
    \E c \in Callers : CallerConsume(c) \/ CallerLoad(c) \/ CallerStore(c)

\* a MemoryStore, new or after any Put, that two tasks apply Patches to
InitCallers ==
    /\ init \in BOOLEAN
    /\ flags \in IF init THEN FlagMaps ELSE {EmptyMap}
    /\ InitLocals
    /\ InitNoEval
    /\ InitNoDecode
    /\ InitNoRace
    /\ tomb = NoTombs
    /\ source = "live"
    /\ pc = "unstarted"
    /\ streamCalls = 0
    /\ wpc = "unstarted"
    /\ taken = FALSE
    /\ tasks = 0
    /\ starts = 0
    /\ startRes = "-"
    /\ cpc = [c \in Callers |-> "idle"]
    /\ cmsg = [c \in Callers |-> NoMsg]
    /\ cupd = [c \in Callers |-> None]
    /\ cret = [c \in Callers |-> "-"]
    /\ cown = [c \in Callers |-> Get(flags, CallerKey(c))]

SpecCallers == InitCallers /\ [][NextCallers]_vars

\* -------------------------------------------------------------- evaluation
\* Evaluator::evaluate(ekey, User::new(euser)) is called and returns
Evaluate ==
    /\ eres = NoEval
    /\ eidx' = IF ekey \in DOMAIN estore
               THEN Index(estore, estore[ekey], euser, digest, MaxDepth)
               ELSE NoIndex
    /\ eres' = EvaluateFlag(estore, ekey, euser, digest)
    /\ UNCHANGED <<storeVars, source, taskVars, chanVars, waitVars, readVars,
                   ghostVars, clientVars, estore, ekey, euser, digest,
                   auxVars>>

NextEval == Evaluate

\* a writer's MemoryStore::consume(Put) stores a new map in the store the
\* Evaluator reads
StorePut ==
    /\ writes < MaxWrites
    /\ writes' = writes + 1
    /\ \E m \in RaceStores \ {estore} : estore' = m
    /\ eheld' = IF IsSome(etop) /\ eres = NoEval
                THEN eheld \cup {estore'} ELSE eheld
    /\ UNCHANGED <<storeVars, source, taskVars, chanVars, waitVars, readVars,
                   ghostVars, clientVars, ekey, euser, digest, eidx, eres,
                   etop, decodeVars, histVars, callVars>>

\* Evaluator::evaluate, `self.store.flag(flag).ok_or(FlagNotFound)?`: one
\* load of the store's map
EvaluateLoad ==
    /\ eres = NoEval
    /\ etop = None
    /\ eheld' = {estore}
    /\ IF IsSome(Get(estore, ekey))
       THEN /\ etop' = Get(estore, ekey)
            /\ eres' = eres
       ELSE /\ etop' = etop
            /\ eres' = ErrValue("FlagNotFound")
    /\ UNCHANGED <<storeVars, source, taskVars, chanVars, waitVars, readVars,
                   ghostVars, clientVars, estore, ekey, euser, digest, eidx,
                   writes, decodeVars, histVars, callVars>>

\* Evaluator::evaluate, `Evaluation::new(&self.store, &flag, user).run()`:
\* each prerequisite is looked up with a load of its own, here all of them
\* on the map the store holds now
EvaluateRun ==
    /\ eres = NoEval
    /\ IsSome(etop)
    /\ eidx' = Index(estore, Unwrap(etop), euser, digest, MaxDepth)
    /\ eres' = Run(estore, Unwrap(etop), euser, digest)
    /\ UNCHANGED <<storeVars, source, taskVars, chanVars, waitVars, readVars,
                   ghostVars, clientVars, estore, ekey, euser, digest,
                   raceVars, decodeVars, histVars, callVars>>

NextRace == StorePut \/ EvaluateLoad \/ EvaluateRun

\* an Evaluator over a MemoryStore that a writer stores new maps in
InitRace ==
    /\ InitStore
    /\ InitIdle
    /\ source = "live"
    /\ pc = "unstarted"
    /\ streamCalls = 0
    /\ wpc = "unstarted"
    /\ taken = FALSE
    /\ tasks = 0
    /\ starts = 0
    /\ startRes = "-"
    /\ \E in \in RaceInputs :
        /\ estore = in.store
        /\ ekey = in.key
        /\ euser = in.user
        /\ digest = in.digest
    /\ eidx = NoIndex
    /\ eres = NoEval

SpecRace == InitRace /\ [][NextRace]_vars

SpecEval == InitEval /\ [][NextEval]_vars

\* ===================================================================
\* Properties.  At pc = "send" consume(msg) has just returned ret; pre
\* and preInit are the map and init flag it started from.
\* ===================================================================

\* consume(msg) has just returned from the given arm
Returned(arm) == pc = "send" /\ Arm(msg) = arm

\* C1: on an initialised store where K is stored with version v,
\* Patch(K, data = F) makes the stored flag F when F.version > v and
\* leaves the map unchanged when F.version <= v; it returns Done.
PatchIsMonotonic ==
    (Returned("Patch") /\ preInit /\ msg.name \in DOMAIN pre) =>
        /\ ret = "Done"
        /\ flags = IF Unwrap(msg.data).version > pre[msg.name].version
                   THEN Insert(pre, msg.name, Unwrap(msg.data))
                   ELSE pre

\* C2: on an initialised store, Delete(K, version = d) removes K exactly
\* when K is stored with a version strictly below d; otherwise the map is
\* unchanged; no other key is affected and the call returns Done.
DeleteIsMonotonic ==
    (Returned("Delete") /\ preInit) =>
        LET K == msg.name
            d == Unwrap(msg.version)
            removes == K \in DOMAIN pre /\ pre[K].version < d
        IN  /\ ret = "Done"
            /\ (K \notin DOMAIN flags) <=> (removes \/ K \notin DOMAIN pre)
            /\ ~removes => flags = pre
            /\ \A k \in Keys \ {K} : Get(flags, k) = Get(pre, k)

\* C2 witness: a Delete removed K and left the other stored key alone
DeleteRemoved ==
    /\ Returned("Delete")
    /\ preInit
    /\ msg.name \in DOMAIN pre
    /\ msg.name \notin DOMAIN flags
    /\ DOMAIN flags # {}

\* C3: before any Put, every Patch and Delete message, whatever its
\* fields, leaves the map empty and the store uninitialised and returns
\* Pending.
PreInitIsPending ==
    (pc = "send" /\ msg.type \in {"Patch", "Delete"} /\ ~preInit) =>
        /\ flags = EmptyMap
        /\ ~init
        /\ ret = "Pending"

\* C4: whenever the readiness value Ok is published or observed, the
\* store is initialised (a Put has been applied).
ReadyImpliesInit == (slot = "Ok" \/ wres = "Ok") => init

\* C5: once a first readiness value has been published, the value a
\* waiter obtains is that first value.
ReadinessIsTerminal ==
    (first # "None" /\ wpc = "done") => wres = first

\* C6: with a source whose streams all yield an error first, the loop
\* ends after exactly 4 stream errors and 4 reconnects, publishes
\* RetryFailed, which is what the future resolves with, and the store is
\* never modified.
FourFailureCutoff ==
    source = "failing" =>
        /\ flags = EmptyMap /\ ~init
        /\ pc = "next" => errors < 4
        /\ pc \in {"giveup", "exit", "ended"} =>
              errors = 4 /\ streamCalls = 1 + 4
        /\ pc \in {"next", "giveup", "exit", "ended"}
        /\ slot # "None" => slot = "RetryFailed" /\ errors = 4
        /\ wpc = "done" => wres = "RetryFailed"

\* C6 witness: the failing source's run ended and the future resolved
FailingSourceResolved ==
    /\ source = "failing"
    /\ pc = "ended"
    /\ wpc = "done"
    /\ wres = "RetryFailed"

\* the result the reader's call would have had on map m
ResultOn(r, m) == IF r.op = "flag" THEN FlagOf(m, r.name) ELSE ExportOf(m)

\* a step of the reader
ReadStep == pc' = pc /\ readVars' # readVars

\* C7: every result of flag(key) or export_all() is the lookup / export of
\* a complete map of the writer's sequence (the map before the message in
\* flight, or the map that message leaves), and a reader that has seen
\* the later map does not see the earlier one afterwards.
ReadersSeeSnapshots ==
    [][ReadStep =>
        /\ rres' \in {ResultOn(rres', pre), ResultOn(rres', Post)}
        /\ rahead => rres' = ResultOn(rres', Post)]_vars

\* C7 witness: the reader got the map of a Put whose consume has not
\* returned yet (init is not stored yet)
ReaderSawInFlightPut ==
    /\ pc = "put_init"
    /\ rahead
    /\ rres.op = "export"
    /\ rres.map = msg.flags

\* C8: Put(M) makes the map exactly M in any store state, initialises the
\* store and returns Done.
PutReplaces ==
    Returned("Put") =>
        /\ flags = msg.flags
        /\ init
        /\ ret = "Done"

\* C8 witness: a Put on an initialised store dropped a stored key and
\* replaced a stored flag by one of a lower version
PutDroppedAndDowngraded ==
    /\ Returned("Put")
    /\ preInit
    /\ \E k \in DOMAIN pre : k \notin DOMAIN msg.flags
    /\ \E k \in DOMAIN pre \cap DOMAIN msg.flags :
          msg.flags[k].version < pre[k].version

\* C9: the loop gives up only after 4 stream item errors in a row; every
\* decoded message resets the failure counter; whatever consume returns,
\* the loop goes on to the next item.
GiveUpOnlyAfterFourInARow ==
    /\ []((pc \in {"giveup", "exit"} \/ slot = "RetryFailed") => consec = 4)
    /\ [](msg # NoMsg => failures = 0)
    /\ [][(pc = "send" /\ pc' # pc) => pc' = "next"]_vars

\* C9 witness: RetryFailed was published in a run in which an earlier
\* error had been followed by a decoded message
GaveUpAfterReset == slot = "RetryFailed" /\ errors > 4

\* C10: a readiness future that completes after the run ended fails with
\* TaskDropped when nothing was published and resolves with the published
\* value otherwise; once the run ended it is not left waiting and does
\* not panic.
EndedRunResolvesFuture ==
    /\ [][(pc = "ended" /\ wpc # "done" /\ wpc' = "done") =>
            wres' = IF slot = "None" THEN "TaskDropped" ELSE slot]_vars
    /\ []((pc = "ended" /\ wpc = "changed") => (rxChanged \/ txClosed))
    /\ [](pc = "ended" => wpc # "panicked")

\* C10 witness: the stream ended before a Put, nothing was published, and
\* the future failed with TaskDropped
FutureSawTaskDropped ==
    /\ pc = "ended"
    /\ slot = "None"
    /\ ~init
    /\ wpc = "done"
    /\ wres = "TaskDropped"

\* a step of the readiness future
WaiterStep == wpc' # wpc

\* C11: consumption does not depend on the readiness future: the future's
\* steps leave the store and the task alone, the task is never blocked by
\* the future's state, and where the task touches the channel (the sends)
\* it hands over the same value and goes on the same way whether the
\* future is awaited, not polled or dropped.
ConsumptionIgnoresFuture ==
    /\ [][WaiterStep => UNCHANGED <<storeVars, taskVars, sent>>]_vars
    /\ [][(pc = "send" /\ pc' # pc) =>
            /\ pc' = "next"
            /\ UNCHANGED <<storeVars, failures>>
            /\ sent' = IF ret = "Done" THEN "Ok" ELSE sent]_vars
    /\ [][(pc = "giveup" /\ pc' # pc) =>
            (pc' = "exit" /\ sent' = "RetryFailed")]_vars
    /\ []((pc \in {"send", "giveup", "exit"}) => ENABLED Task)

\* C11 witness: the future was dropped before anything was published and
\* the task went on to apply a Put and to send Ok
ConsumedAfterDrop ==
    /\ wpc = "dropped"
    /\ slot = "None"
    /\ sent = "Ok"
    /\ init
    /\ pc = "next"

\* C12: start is single-use: the first call takes the source and spawns
\* the one consumer task; every later call returns AlreadyStarted and
\* touches neither the task, the channel nor the store.
StartIsSingleUse ==
    /\ [](tasks <= 1)
    /\ [](starts >= 1 => (taken /\ tasks = 1))
    /\ [][(starts' # starts /\ starts >= 1) =>
            /\ startRes' = "AlreadyStarted"
            /\ UNCHANGED <<storeVars, taskVars, chanVars, waitVars, tasks>>]_vars

\* C12 witness: the first start resolved with RetryFailed and a later
\* start returned AlreadyStarted
RestartAfterRetryFailed ==
    /\ startRes = "AlreadyStarted"
    /\ wres = "RetryFailed"
    /\ tasks = 1

\* ---- the evaluator
Evaluated == eres # NoEval
\* the flag evaluate was called for
TopFlag == estore[ekey]
Found == ekey \in DOMAIN estore
OutOf(vec, n) == IF 0 <= n /\ n < Len(vec) THEN OkValue(vec[n + 1])
                 ELSE ErrValue("IndexOutOfRange")

\* C13: a flag that is off evaluates to its off_variation, whatever its
\* prerequisites, targets, rules and fallthrough hold, whoever the user is
\* and whatever else the store holds.
OffShortCircuit ==
    (Evaluated /\ Found /\ ~TopFlag.on) =>
        /\ eidx = OkUsize(Usize(TopFlag.off_variation))
        /\ eres = OutOf(TopFlag.variations, TopFlag.off_variation)

\* an off flag with a prerequisite, a malformed target, a rule and an empty
\* fallthrough was evaluated next to another flag
OffWithMalformedRest ==
    /\ Evaluated /\ Found /\ ~TopFlag.on
    /\ "g" \in DOMAIN estore
    /\ TopFlag.prerequisites # << >>
    /\ TopFlag.targets = <<Target(None, Some(1))>>
    /\ TopFlag.rules # << >>
    /\ TopFlag.fallthrough = FallthroughOf(None, None)
    /\ eres = OkValue("v0")

\* prerequisite i of the evaluated flag: its entry, and what the flag it
\* names evaluates to for the same store and user
PrereqEntry(i) == TopFlag.prerequisites[i]
PrereqWellFormed(i) == IsSome(PrereqEntry(i).key) /\ IsSome(PrereqEntry(i).variation)
PrereqKey(i) == Unwrap(PrereqEntry(i).key)
PrereqIndex(i) == Index(estore, estore[PrereqKey(i)], euser, digest, MaxDepth)
PrereqPasses(i) ==
    /\ PrereqWellFormed(i)
    /\ PrereqKey(i) \in DOMAIN estore
    /\ estore[PrereqKey(i)].on
    /\ PrereqIndex(i).ok
    /\ AsI64(PrereqIndex(i).val) = Unwrap(PrereqEntry(i).variation)
PrereqFails(i) ==
    \/ ~PrereqWellFormed(i)
    \/ PrereqKey(i) \notin DOMAIN estore
    \/ ~estore[PrereqKey(i)].on
    \/ /\ PrereqIndex(i).ok
       /\ AsI64(PrereqIndex(i).val) # Unwrap(PrereqEntry(i).variation)
PrereqsPass == \A i \in 1..Len(TopFlag.prerequisites) : PrereqPasses(i)
FirstPrereqFails ==
    \E i \in 1..Len(TopFlag.prerequisites) :
        PrereqFails(i) /\ \A j \in 1..(i - 1) : PrereqPasses(j)

\* C14: for a flag that is on, the first prerequisite in declared order that
\* is malformed, names a missing or an off flag, or whose flag evaluates to
\* another index makes the flag evaluate to its own off_variation with no
\* prerequisite error; when all prerequisites pass the result is the one of
\* targets, rules and fallthrough.
PrerequisiteGate ==
    (Evaluated /\ Found /\ TopFlag.on) =>
        /\ FirstPrereqFails =>
            /\ eidx = OkUsize(Usize(TopFlag.off_variation))
            /\ eres = OutOf(TopFlag.variations, TopFlag.off_variation)
        /\ PrereqsPass => eidx = Decide(TopFlag, euser, digest[ekey])

\* the first prerequisite passed, the second names a missing flag, and the
\* flag evaluated to its off_variation although a target names the user
SecondPrerequisiteFailed ==
    /\ Evaluated /\ Found /\ TopFlag.on
    /\ Len(TopFlag.prerequisites) = 2
    /\ PrereqPasses(1) /\ PrereqFails(2)
    /\ Targets(TopFlag, euser) = OkOpt(Some(1))
    /\ TopFlag.off_variation = 0
    /\ eres = OkValue("v0")

\* target i of the evaluated flag
TargetEntry(i) == TopFlag.targets[i]
TargetWellFormed(i) == IsSome(TargetEntry(i).values) /\ IsSome(TargetEntry(i).variation)
\* the value list of target i holds the user's key
TargetNames(i) ==
    /\ IsSome(TargetEntry(i).values)
    /\ \E j \in 1..Len(Unwrap(TargetEntry(i).values)) :
            Unwrap(TargetEntry(i).values)[j] = euser
TargetIdx == 1..Len(TopFlag.targets)
\* what rules and fallthrough give
AfterTargets ==
    IF ~Rules(TopFlag).ok THEN ErrUsize(Rules(TopFlag).err)
    ELSE IF Fallthrough(TopFlag, digest[ekey]).ok
    THEN OkUsize(AsUsize(Fallthrough(TopFlag, digest[ekey]).val))
    ELSE ErrUsize(Fallthrough(TopFlag, digest[ekey]).err)
PastPrerequisites == Evaluated /\ Found /\ TopFlag.on /\ PrereqsPass

\* C15 as stated: past the prerequisites, the first target in declared order
\* whose value list holds the user's key gives the result index, and when
\* no target holds it the result is the one of rules and fallthrough.
FirstNamingTargetWins ==
    PastPrerequisites =>
        /\ \A i \in TargetIdx :
            (TargetNames(i) /\ \A j \in 1..(i - 1) : ~TargetNames(j)) =>
                /\ IsSome(TargetEntry(i).variation)
                /\ eidx = OkUsize(AsUsize(Unwrap(TargetEntry(i).variation)))
        /\ (\A i \in TargetIdx : ~TargetNames(i)) => eidx = AfterTargets

\* C15, amended: the scan stops with InvalidTarget at the first target that
\* lacks values or variation; a target whose value list holds the user's key
\* gives the result index when no target before it holds the key and all
\* targets up to it are well formed; when all targets are well formed and
\* none holds the key the result is the one of rules and fallthrough.
FirstWellFormedMatchWins ==
    PastPrerequisites =>
        /\ \A i \in TargetIdx :
            ( /\ TargetNames(i)
              /\ \A j \in 1..i : TargetWellFormed(j)
              /\ \A j \in 1..(i - 1) : ~TargetNames(j) ) =>
                eidx = OkUsize(AsUsize(Unwrap(TargetEntry(i).variation)))
        /\ \A i \in TargetIdx :
            ( /\ ~TargetWellFormed(i)
              /\ \A j \in 1..(i - 1) : TargetWellFormed(j) /\ ~TargetNames(j) ) =>
                eidx = ErrUsize("InvalidTarget")
        /\ (\A i \in TargetIdx : TargetWellFormed(i) /\ ~TargetNames(i)) =>
                eidx = AfterTargets

\* the second target named the user by its second value and won over the
\* rules and the fallthrough
SecondTargetWon ==
    /\ PastPrerequisites
    /\ Len(TopFlag.targets) = 2
    /\ ~TargetNames(1) /\ TargetNames(2) /\ TargetWellFormed(1)
    /\ TopFlag.rules # << >>
    /\ TopFlag.prerequisites # << >>
    /\ eres = OkValue("v1")

\* C16 as stated: evaluate fails with UnsupportedRules for every flag of
\* the store that has rules, so a flag evaluate returns a value for has
\* none.
RulesAlwaysFail ==
    (Evaluated /\ Found) =>
        /\ TopFlag.rules # << >> => eres = ErrValue("UnsupportedRules")
        /\ eres.ok => TopFlag.rules = << >>

\* C16, amended: a flag with rules fails with UnsupportedRules when it is
\* on, its prerequisites pass, and its targets are well formed and do not
\* name the user; evaluate returns a value for a flag with rules only when
\* the flag is off, its prerequisite check failed, or a target named the
\* user.
RulesFailWhenReached ==
    /\ ( /\ PastPrerequisites
         /\ TopFlag.rules # << >>
         /\ \A i \in TargetIdx : TargetWellFormed(i) /\ ~TargetNames(i) ) =>
            /\ eidx = ErrUsize("UnsupportedRules")
            /\ eres = ErrValue("UnsupportedRules")
    /\ (Evaluated /\ Found /\ eres.ok /\ TopFlag.rules # << >>) =>
            \/ ~TopFlag.on
            \/ ~PrereqsPass
            \/ \E i \in TargetIdx : TargetNames(i)

\* a flag with rules, a passing prerequisite, a target for another user and
\* a fixed fallthrough failed with UnsupportedRules
RulesReached ==
    /\ PastPrerequisites
    /\ TopFlag.prerequisites # << >>
    /\ TopFlag.targets # << >>
    /\ \A i \in TargetIdx : TargetWellFormed(i) /\ ~TargetNames(i)
    /\ TopFlag.fallthrough.variation = Some(1)
    /\ eres = ErrValue("UnsupportedRules")

\* the evaluated flag is decided by a rollout: it is on, has no
\* prerequisites, targets, rules or fixed fallthrough variation, and its
\* rollout has entries
ByRollout ==
    /\ Evaluated /\ Found /\ TopFlag.on
    /\ TopFlag.prerequisites = << >> /\ TopFlag.targets = << >>
    /\ TopFlag.rules = << >>
    /\ ~IsSome(TopFlag.fallthrough.variation)
    /\ IsSome(TopFlag.fallthrough.rollout)
    /\ IsSome(Unwrap(TopFlag.fallthrough.rollout).variations)
    /\ Unwrap(Unwrap(TopFlag.fallthrough.rollout).variations) # << >>
Entries == Unwrap(Unwrap(TopFlag.fallthrough.rollout).variations)
EntriesWellFormed ==
    \A i \in 1..Len(Entries) :
        IsSome(Entries[i].weight) /\ IsSome(Entries[i].variation)
RECURSIVE WeightSum(_)
WeightSum(i) == IF i = 0 THEN 0 ELSE WeightSum(i - 1) + Unwrap(Entries[i].weight)
\* the cumulative weight fraction of entries 1..i, accumulated as the walk
\* accumulates it
RECURSIVE Cumulative(_)
Cumulative(i) ==
    IF i = 0 THEN ZeroBits
    ELSE AddF64(Cumulative(i - 1), WeightFraction(Unwrap(Entries[i].weight)))
UserBucket == Bucket(digest[ekey])

\* C17: with weights that add up to 100000, every bucket in [0,1) selects
\* the first entry whose cumulative weight fraction exceeds it, and the
\* walk does not end in InvalidRollout.
RolloutCoversUnitInterval ==
    ( /\ ByRollout /\ EntriesWellFormed
      /\ WeightSum(Len(Entries)) = WeightScale
      /\ LessBits(UserBucket, OneF64) ) =>
        /\ eidx.ok
        /\ \E i \in 1..Len(Entries) :
            /\ eidx = OkUsize(AsUsize(Unwrap(Entries[i].variation)))
            /\ LessBits(UserBucket, Cumulative(i))
            /\ \A j \in 1..(i - 1) : ~LessBits(UserBucket, Cumulative(j))

\* C18: the bucket is in [0,1): not negative by its type, and below 1 for
\* every prefix of the digest.
BucketBelowOne == ByRollout => LessBits(UserBucket, OneF64)

\* targets and rules leave the decision to the fallthrough
AtFallthrough ==
    /\ PastPrerequisites
    /\ \A i \in TargetIdx : TargetWellFormed(i) /\ ~TargetNames(i)
    /\ TopFlag.rules = << >>
\* a Result<i64, Error> as index() returns it
Cast(r) == IF r.ok THEN OkUsize(AsUsize(r.val)) ELSE ErrUsize(r.err)

SignedIndex == AsI64(eidx.val)
IndexInRange == 0 <= SignedIndex /\ SignedIndex < Len(TopFlag.variations)

\* C20: evaluate returns a value exactly when the computed index is an index
\* of variations, the value is variations[index], and any other index, a
\* negative one included, gives IndexOutOfRange.
IndexChecked ==
    (Evaluated /\ Found) =>
        /\ (eidx.ok /\ IndexInRange) =>
            eres = OkValue(TopFlag.variations[SignedIndex + 1])
        /\ (eidx.ok /\ ~IndexInRange) => eres = ErrValue("IndexOutOfRange")
        /\ eres.ok => (eidx.ok /\ IndexInRange)

\* a target with variation -1 named the user and evaluate failed with
\* IndexOutOfRange
NegativeTargetRejected ==
    /\ PastPrerequisites
    /\ \E i \in TargetIdx :
        TargetNames(i) /\ TargetEntry(i).variation = Some(-1)
    /\ eidx.ok /\ SignedIndex = -1
    /\ eres = ErrValue("IndexOutOfRange")

\* ------------------------------------------------------- message decoding
\* the message stream polled an event
Polled == event # NoEvent
\* the JSON object in the event's data field
PayloadObject == Unwrap(event.data)
HasObject == Polled /\ IsSome(event.data) /\ PayloadObject.json

\* C21: a put event whose payload is a JSON object with a data field that
\* holds a flags mapping and with no path field decodes to Put with that
\* flag map.
PutNeedsNoPath ==
    (/\ HasObject
     /\ event.event_type = "put"
     /\ ~IsSome(PayloadObject.path)
     /\ IsSome(PayloadObject.data)
     /\ Unwrap(PayloadObject.data).shape = "flags") =>
        item = Decoded(MkMsg("Put", Unwrap(PayloadObject.data).flags, "-", "-",
                             None, None))

\* C22: an event whose name is none of put, patch and delete decodes to
\* Unknown whatever its payload is, and the loop's failure counter is 0
\* after it.
UnknownNameNeverFails ==
    (Polled /\ event.event_type \notin {"put", "patch", "delete"}) =>
        /\ item = Decoded(UnknownMsg)
        /\ failures = 0

\* --------------------------------------------------- partial messages
\* a message the store has no arm for: Unknown, a Patch or Delete for a
\* record that is not a flag, a Patch without data, a Delete without version
Partial(m) ==
    \/ m.type = "Unknown"
    \/ m.type \in {"Patch", "Delete"} /\ m.kind = "Unknown"
    \/ m.type = "Patch" /\ m.kind = "Flag" /\ ~IsSome(m.data)
    \/ m.type = "Delete" /\ m.kind = "Flag" /\ ~IsSome(m.version)

FirstPrereqOn(f) ==
    /\ f.on
    /\ Len(f.prerequisites) > 0
    /\ IsSome(f.prerequisites[1].key)
    /\ IsSome(f.prerequisites[1].variation)
    /\ Unwrap(f.prerequisites[1].key) \in DOMAIN estore
    /\ estore[Unwrap(f.prerequisites[1].key)].on
FirstPrereqOf(f) == estore[Unwrap(f.prerequisites[1].key)]
\* the evaluated flag is on and lists itself first, or lists first an on
\* flag that lists the evaluated flag first
FirstPrereqCycle ==
    /\ Evaluated /\ Found
    /\ FirstPrereqOn(TopFlag)
    /\ \/ FirstPrereqOf(TopFlag).key = TopFlag.key
       \/ /\ FirstPrereqOn(FirstPrereqOf(TopFlag))
          /\ FirstPrereqOf(FirstPrereqOf(TopFlag)).key = TopFlag.key

\* C24: when two on flags each list the other as first prerequisite, or an
\* on flag lists itself first, evaluate on it does not return.
CycleNeverReturns == FirstPrereqCycle => eres = ErrValue(NoReturn)

\* C24 witness: evaluate was called for a flag in a cycle of two flags
TwoFlagCycleEvaluated ==
    /\ FirstPrereqCycle
    /\ FirstPrereqOf(TopFlag).key # TopFlag.key
    /\ eres = ErrValue(NoReturn)

\* --------------------------------------- errors behind prerequisites
\* errors Evaluation::prerequisites raises itself
PrereqErrors == {"FlagOff", "PrerequisiteFailed", "InvalidPrerequisite"}
\* errors raised by the later steps of an evaluation
StepErrors ==
    {"UnsupportedRules", "InvalidTarget", "InvalidRollout", "EmptyFallthrough"}
\* prerequisite i is reached and the evaluation of its flag fails with err
PrereqRaises(i, err) ==
    /\ \A j \in 1..(i - 1) : PrereqPasses(j)
    /\ PrereqWellFormed(i)
    /\ PrereqKey(i) \in DOMAIN estore
    /\ estore[PrereqKey(i)].on
    /\ PrereqIndex(i).err = err

\* C25: evaluate never returns FlagOff, PrerequisiteFailed or
\* InvalidPrerequisite; it returns FlagNotFound only when the key it was
\* called with is not stored; and when the evaluation of a prerequisite
\* flag fails with UnsupportedRules, InvalidTarget, InvalidRollout or
\* EmptyFallthrough, the dependent flag evaluates to its off_variation.
PrereqErrorsAbsorbed ==
    Evaluated =>
        /\ eres.err \notin PrereqErrors
        /\ eres.err = "FlagNotFound" => ~Found
        /\ (/\ Found
            /\ TopFlag.on
            /\ \E i \in 1..Len(TopFlag.prerequisites) :
                \E err \in StepErrors : PrereqRaises(i, err)) =>
                /\ eidx = OkUsize(Usize(TopFlag.off_variation))
                /\ eres = OutOf(TopFlag.variations, TopFlag.off_variation)

\* C25 witness: the prerequisite flag has rules and the dependent flag
\* evaluated to its off_variation
PrereqWithRulesAbsorbed ==
    /\ Evaluated /\ Found /\ TopFlag.on
    /\ Len(TopFlag.prerequisites) > 0
    /\ PrereqRaises(1, "UnsupportedRules")
    /\ eres = OkValue(TopFlag.variations[TopFlag.off_variation + 1])

\* ------------------------------------------------------ deleted flags
\* C26: a key that a Delete of version d removed from an initialised store
\* stays absent until a Put or a Patch for it with a version above d is
\* applied; a Patch whose flag version is at most d does not bring it back.
DeletedStaysDeleted ==
    \A k \in Keys : tomb[k] > 0 => k \notin DOMAIN flags

\* ------------------------------------------- evaluation against a writer
\* C27: what evaluate returns is what it returns on one of the maps the
\* store held while the call was running, never a mix of the flag of one
\* map and the prerequisite flags of another.
SingleSnapshot ==
    (eres # NoEval /\ eheld # {}) =>
        \E m \in eheld : eres = EvaluateFlag(m, ekey, euser, digest)

\* ------------------------------------------------ concurrent consume calls
\* C28: calls of consume by two tasks on one store take effect one at a
\* time: whenever a caller is between calls, its key holds what its last
\* applied Patch put there (or what the store started with), whatever the
\* other caller did to the other key meanwhile.
UpdatesOfBothKept ==
    \A c \in Callers :
        cpc[c] = "idle" => Get(flags, CallerKey(c)) = cown[c]

\* ----------------------------------------------------- initialisation
\* C29: once the store is initialised it stays initialised, and consume
\* does not return Pending on an initialised store.
InitIsMonotone ==
    /\ [](init => ret # "Pending")
    /\ [][init => init']_vars

\* C29 witness: a Delete returned Done on a store that an earlier Put had
\* initialised, after Ok was published
DoneLongAfterPut ==
    /\ pc = "send"
    /\ Arm(msg) = "Delete"
    /\ preInit /\ init
    /\ ret = "Done"
    /\ slot = "Ok"

\* ------------------------------------------------- the future's unwrap
\* C30: the readiness future does not panic: whenever it is past the wait,
\* about to unwrap the channel's value, a value has been published.
UnwrapNeverPanics ==
    /\ wpc # "panicked"
    /\ wpc = "read" => slot # "None"

\* C30 witness: the future got past changed() and the channel held Ok
WokenWithValue ==
    /\ wpc = "read"
    /\ ~rxChanged
    /\ slot = "Ok"

====
